---- MODULE Spec2Model ----
(***************************************************************************)
(* Pre-screening API (main.py): three endpoints that fetch a spreadsheet   *)
(* export, locate a client's row by name, map the answers to features and  *)
(* return the label predicted by a classifier fitted at process start.     *)
(*                                                                         *)
(* Text is a sequence of one-character strings, so that strip(), lower(),  *)
(* title() and split() are computed character by character.  Labels and    *)
(* message templates, which the program never inspects, are plain strings. *)
(***************************************************************************)
EXTENDS Integers, Sequences, FiniteSets, TLC

VARIABLES
    phq9_response_mapping,  \* dict: answer text -> score (module global)
    bai_response_mapping,   \* dict: answer text -> score (module global)
    phq9_X, phq9_y, phq9_rf, \* training samples, labels, fitted classifier
    bai_X, bai_y, bai_rf,
    asq_X, asq_y, asq_rf,
    handler,                \* "idle", or the endpoint whose response is pending delivery
    request,                \* query parameters of the request being served
    fetched,                \* what requests.get + csv.reader produced for it
    response                \* the HTTP response of the request being served

globals == <<phq9_response_mapping, bai_response_mapping,
             phq9_X, phq9_y, phq9_rf, bai_X, bai_y, bai_rf, asq_X, asq_y, asq_rf>>

vars == <<phq9_response_mapping, bai_response_mapping,
          phq9_X, phq9_y, phq9_rf, bai_X, bai_y, bai_rf, asq_X, asq_y, asq_rf,
          handler, request, fetched, response>>

---------------------------------------------------------------------------
(* Python str methods used by the handlers *)

UpperCase == <<"A","B","C","D","E","F","G","H","I","J","K","L","M","N","O","P","Q","R","S","T","U","V","W","X","Y","Z">>

LowerCase == <<"a","b","c","d","e","f","g","h","i","j","k","l","m","n","o","p","q","r","s","t","u","v","w","x","y","z">>

Whitespace == {" ", "\t", "\n", "\r", "\f"}

\* upper-case letter -> lower-case letter, and back
ToLower == [c \in {UpperCase[k] : k \in 1..Len(UpperCase)} |->
               LowerCase[CHOOSE k \in 1..Len(UpperCase) : UpperCase[k] = c]]

ToUpper == [c \in {LowerCase[k] : k \in 1..Len(LowerCase)} |->
               UpperCase[CHOOSE k \in 1..Len(LowerCase) : LowerCase[k] = c]]

IsUpper(c) == c \in DOMAIN ToLower

IsLower(c) == c \in DOMAIN ToUpper

IsCased(c) == IsUpper(c) \/ IsLower(c)

LowerChar(c) == IF IsUpper(c) THEN ToLower[c] ELSE c

UpperChar(c) == IF IsLower(c) THEN ToUpper[c] ELSE c

SetMin(S) == CHOOSE m \in S : \A n \in S : m <= n

\* a variant of lower that leaves the text as it is
lower_left_out(s) == s

\* str.lower()
lower(s) == [i \in 1..Len(s) |-> LowerChar(s[i])]

\* str.lstrip() and str.rstrip()
RECURSIVE lstrip(_)
lstrip(s) == IF s # <<>> /\ s[1] \in Whitespace THEN lstrip(Tail(s)) ELSE s

RECURSIVE rstrip(_)
rstrip(s) ==
    IF s # <<>> /\ s[Len(s)] \in Whitespace THEN rstrip(SubSeq(s, 1, Len(s) - 1)) ELSE s

\* str.strip(): drops every leading and trailing whitespace character
strip(s) == rstrip(lstrip(s))

\* str.title(): a cased character is upper-cased after an uncased one, lower-cased otherwise
title(s) ==
    [i \in 1..Len(s) |->
        IF i = 1 \/ ~IsCased(s[i - 1]) THEN UpperChar(s[i]) ELSE LowerChar(s[i])]

\* str.split(sep) for a one-character separator
RECURSIVE split(_, _)
split(s, sep) ==
    LET at == {i \in 1..Len(s) : s[i] = sep}
    IN  IF at = {} THEN <<s>>
        ELSE <<SubSeq(s, 1, SetMin(at) - 1)>> \o split(SubSeq(s, SetMin(at) + 1, Len(s)), sep)

\* a variant of get that ignores letter case when looking the key up
get_ignoring_case(mapping, key, default) ==
    IF \E k \in DOMAIN mapping : [i \in 1..Len(k) |-> LowerChar(k[i])] = [i \in 1..Len(key) |-> LowerChar(key[i])]
    THEN mapping[CHOOSE k \in DOMAIN mapping :
                    [i \in 1..Len(k) |-> LowerChar(k[i])] = [i \in 1..Len(key) |-> LowerChar(key[i])]]
    ELSE default

\* dict.get(key, default)
get(mapping, key, default) == IF key \in DOMAIN mapping THEN mapping[key] ELSE default

\* sum() of a list of integers
RECURSIVE sum(_)
sum(xs) == IF xs = <<>> THEN 0 ELSE xs[1] + sum(Tail(xs))

\* x in list
contains(xs, x) == \E i \in 1..Len(xs) : xs[i] = x

\* f"{first_name} {middle_name} {last_name} {suffix}"
join_name(a, b, c, d) == a \o <<" ">> \o b \o <<" ">> \o c \o <<" ">> \o d

---------------------------------------------------------------------------
(* Answer texts and the two answer-to-score tables *)

NotAtAll == <<"N","o","t"," ","a","t"," ","a","l","l">>

SeveralDays == <<"S","e","v","e","r","a","l"," ","D","a","y","s">>

MoreThanHalf == <<"M","o","r","e"," ","t","h","a","n"," ","h","a","l","f"," ","t","h","e"," ","d","a","y","s">>

NearlyEveryDay == <<"N","e","a","r","l","y"," ","e","v","e","r","y"," ","d","a","y">>

Mildly == <<"M","i","l","d","l","y",","," ","b","u","t"," ","i","t"," ","d","i","d","n","'","t"," ","b","o","t","h","e","r"," ","m","e"," ","m","u","c","h">>

Moderately == <<"M","o","d","e","r","a","t","e","l","y"," ","-"," ","i","t"," ","w","a","s","n","'","t"," ","p","l","e","a","s","a","n","t"," ","a","t"," ","t","i","m","e","s">>

Severely == <<"S","e","v","e","r","e","l","y"," ","-"," ","i","t"," ","b","o","t","h","e","r","e","d"," ","m","e"," ","a"," ","l","o","t">>

NoneOfTheAbove == <<"N","o","n","e"," ","o","f"," ","t","h","e"," ","a","b","o","v","e">>

Yes == <<"y","e","s">>

NA == <<"N","/","A">>

Phq9MappingAtStart ==
    (NotAtAll :> 0) @@ (SeveralDays :> 1) @@ (MoreThanHalf :> 2) @@ (NearlyEveryDay :> 3)

BaiMappingAtStart ==
    (NotAtAll :> 0) @@ (Mildly :> 1) @@ (Moderately :> 2) @@ (Severely :> 3)

Phq9Answers == 9

BaiAnswers == 21

---------------------------------------------------------------------------
(* Synthetic training data and the classifiers fitted on it at process start *)

Phq9Labels ==
    {"Minimal or none (0-4)", "Mild (5-9)", "Moderate (10-14)",
     "Moderately severe (15-19)", "Severe (20-27)"}

BaiLabels == {"Low Anxiety (0-21)", "Moderate Anxiety (22-35)", "Severe Anxiety (36+)"}

AsqLabels == {"No Risk", "Acute Positive Screen", "Non-Acute Positive Screen"}

\* the label generate_phq9_training_data gives a sample
phq9_training_label(sample) ==
    LET total == sum(sample)
    IN  IF total <= 4 THEN "Minimal or none (0-4)"
        ELSE IF total <= 9 THEN "Mild (5-9)"
        ELSE IF total <= 14 THEN "Moderate (10-14)"
        ELSE IF total <= 19 THEN "Moderately severe (15-19)"
        ELSE "Severe (20-27)"

generate_phq9_training_data(X) == [sample \in X |-> phq9_training_label(sample)]

\* the label generate_bai_training_data gives a sample
bai_training_label(sample) ==
    LET total == sum(sample)
    IN  IF total <= 21 THEN "Low Anxiety (0-21)"
        ELSE IF total <= 35 THEN "Moderate Anxiety (22-35)"
        ELSE "Severe Anxiety (36+)"

generate_bai_training_data(X) == [sample \in X |-> bai_training_label(sample)]

\* the label generate_asq_training_data gives a sample
\* <<none_option, yes_acuity, how_and_when_len, please_describe_len>>
asq_training_label(sample) ==
    IF sample[1] = 1 THEN "No Risk"
    ELSE IF sample[2] = 1 THEN "Acute Positive Screen"
    ELSE "Non-Acute Positive Screen"

generate_asq_training_data(X) == [sample \in X |-> asq_training_label(sample)]

\* classes_ of a fitted classifier: the distinct labels of its training data
classes(y) == {y[sample] : sample \in DOMAIN y}

\* RandomForestClassifier().fit(X, y): the forest is grown from bootstrap
\* samples and random feature subsets, so which function of the feature
\* vector it computes is not fixed by X and y; what fit guarantees is that
\* every prediction is one of the labels in y.  Queries is the bounded set
\* of feature vectors the fitted function is tabulated on.
fit(y, Queries) == [Queries -> classes(y)]

\* rf.predict(features_array)[0]: deterministic once fitted
predict(rf, y, features) ==
    IF features \in DOMAIN rf THEN rf[features] ELSE CHOOSE label \in classes(y) : TRUE

---------------------------------------------------------------------------
(* Exceptions and responses *)

NoDetail == [template |-> "", client |-> <<>>]

NoCause == [type |-> "none", status_code |-> 0, detail |-> NoDetail]

NoContent == [empty |-> TRUE]

HTTPException(status_code, template, client) ==
    [type |-> "HTTPException", status_code |-> status_code,
     detail |-> [template |-> template, client |-> client]]

\* exceptions raised by the libraries and by list indexing
Raised(type) == [type |-> type, status_code |-> 0, detail |-> NoDetail]

Return(content) == [kind |-> "return", content |-> content, exc |-> NoCause]

Raise(exc) == [kind |-> "raise", content |-> NoContent, exc |-> exc]

\* FastAPI renders a returned dict as 200 and a raised HTTPException as its status
Ok(content) ==
    [status_code |-> 200, detail |-> NoDetail, cause |-> NoCause, content |-> content]

\* try: ... except Exception as e: raise HTTPException(500, f"Error processing X data: {e}")
\* HTTPException derives from Exception, so the clause also catches the
\* HTTPExceptions raised inside the try block.
try_except(outcome, template) ==
    IF outcome.kind = "return" THEN Ok(outcome.content)
    ELSE [status_code |-> 500,
          detail |-> [template |-> template, client |-> <<>>],
          cause |-> outcome.exc,
          content |-> NoContent]

\* row[-4], row[-3], row[-2], row[-1] joined and stripped
row_name(row) ==
    strip(join_name(row[Len(row) - 3], row[Len(row) - 2], row[Len(row) - 1], row[Len(row)]))

\* row[1:-4]
answer_slice(row) == IF Len(row) <= 5 THEN <<>> ELSE SubSeq(row, 2, Len(row) - 4)

input_name_of(first_name, last_name, middle_name, suffix) ==
    strip(join_name(first_name, middle_name, last_name, suffix))

---------------------------------------------------------------------------
(* GET /analyze/phq9 *)

phq9_row_outcome(row, input_name) ==
    LET responses == answer_slice(row)
    IN  IF Len(responses) # Phq9Answers
        THEN Raise(HTTPException(400, "Unexpected number of responses for PHQ9.", <<>>))
        ELSE LET features == [i \in 1..Len(responses) |->
                                 get(phq9_response_mapping, strip(responses[i]), 0)]
                 prediction == predict(phq9_rf, phq9_y, features)
                 total_score == sum(features)
                 mild == prediction \in {"Minimal or none (0-4)", "Mild (5-9)"}
             IN  Return([client_name |-> title(input_name),
                         total_score |-> total_score,
                         interpretation |-> prediction,
                         primary_impression |->
                             IF mild
                             THEN "The client may have mild or no mental health concerns."
                             ELSE "The client might be experiencing more significant mental health concerns.",
                         additional_impressions |->
                             IF mild THEN <<>>
                             ELSE <<"The analysis suggests potential Depression.",
                                    "Physical symptoms may be affecting the client.",
                                    "Overall well-being might require attention.">>,
                         tool_recommendations |->
                             IF mild THEN <<>>
                             ELSE <<"Tools for Depression",
                                    "Tools for Physical Symptoms",
                                    "Tools for Well-Being">>])

\* a variant of the loop that accepts a row whose name starts with the requested name
RECURSIVE phq9_scan_prefix_match(_, _, _)
phq9_scan_prefix_match(rows, i, input_name) ==
    IF i > Len(rows)
    THEN Raise(HTTPException(404, "Client '{input_name}' not found in PHQ9 data.", input_name))
    ELSE IF Len(rows[i]) < 4 THEN Raise(Raised("IndexError"))
    ELSE IF /\ Len(row_name(rows[i])) >= Len(input_name)
            /\ lower(SubSeq(row_name(rows[i]), 1, Len(input_name))) = lower(input_name)
         THEN phq9_row_outcome(rows[i], input_name)
         ELSE phq9_scan_prefix_match(rows, i + 1, input_name)

\* a variant of the loop that passes over rows with fewer than four cells
RECURSIVE phq9_scan_skip_short(_, _, _)
phq9_scan_skip_short(rows, i, input_name) ==
    IF i > Len(rows)
    THEN Raise(HTTPException(404, "Client '{input_name}' not found in PHQ9 data.", input_name))
    ELSE IF Len(rows[i]) < 4 THEN phq9_scan_skip_short(rows, i + 1, input_name)
    ELSE IF lower(row_name(rows[i])) = lower(input_name)
         THEN phq9_row_outcome(rows[i], input_name)
         ELSE phq9_scan_skip_short(rows, i + 1, input_name)

\* for row in reader: ... ; rows[i] is the next row the reader yields
RECURSIVE phq9_scan(_, _, _)
phq9_scan(rows, i, input_name) ==
    IF i > Len(rows)
    THEN Raise(HTTPException(404, "Client '{input_name}' not found in PHQ9 data.", input_name))
    ELSE IF Len(rows[i]) < 4 THEN Raise(Raised("IndexError"))
    ELSE IF lower(row_name(rows[i])) = lower(input_name)
         THEN phq9_row_outcome(rows[i], input_name)
         ELSE phq9_scan(rows, i + 1, input_name)

\* the try block: fetch, raise_for_status, header = next(reader), the loop
phq9_try(input_name, fetch) ==
    IF ~fetch.ok THEN Raise(Raised("RequestException"))
    ELSE IF fetch.rows = <<>> THEN Raise(Raised("StopIteration"))
    ELSE phq9_scan(fetch.rows, 2, input_name)

phq9_response(first_name, last_name, middle_name, suffix, fetch) ==
    try_except(phq9_try(input_name_of(first_name, last_name, middle_name, suffix), fetch),
               "Error processing PHQ9 data: {e}")

---------------------------------------------------------------------------
(* GET /analyze/bai *)

bai_row_outcome(row, input_name) ==
    LET responses == answer_slice(row)
    IN  IF Len(responses) # BaiAnswers
        THEN Raise(HTTPException(400, "Unexpected number of responses for BAI.", <<>>))
        ELSE LET features == [i \in 1..Len(responses) |->
                                 get(bai_response_mapping, strip(responses[i]), 0)]
                 prediction == predict(bai_rf, bai_y, features)
                 total_score == sum(features)
                 low == prediction = "Low Anxiety (0-21)"
             IN  Return([client_name |-> title(input_name),
                         total_score |-> total_score,
                         interpretation |-> prediction,
                         primary_impression |->
                             IF low
                             THEN "The client may have mild or no anxiety concerns."
                             ELSE "The client might be experiencing anxiety or related concerns.",
                         additional_impressions |->
                             IF low THEN <<>>
                             ELSE <<"Further evaluation may be needed for Anxiety symptoms.",
                                    "Symptoms of Trauma or PTSD may be present.",
                                    "Youth Mental Health factors may require attention.">>,
                         tool_recommendations |->
                             IF low THEN <<>>
                             ELSE <<"Tools for Anxiety",
                                    "Tools for Trauma & PTSD",
                                    "Tools for Youth Mental Health">>])

RECURSIVE bai_scan(_, _, _)
bai_scan(rows, i, input_name) ==
    IF i > Len(rows)
    THEN Raise(HTTPException(404, "Client '{input_name}' not found in BAI data.", input_name))
    ELSE IF Len(rows[i]) < 4 THEN Raise(Raised("IndexError"))
    ELSE IF lower(row_name(rows[i])) = lower(input_name)
         THEN bai_row_outcome(rows[i], input_name)
         ELSE bai_scan(rows, i + 1, input_name)

bai_try(input_name, fetch) ==
    IF ~fetch.ok THEN Raise(Raised("RequestException"))
    ELSE IF fetch.rows = <<>> THEN Raise(Raised("StopIteration"))
    ELSE bai_scan(fetch.rows, 2, input_name)

bai_response(first_name, last_name, middle_name, suffix, fetch) ==
    try_except(bai_try(input_name_of(first_name, last_name, middle_name, suffix), fetch),
               "Error processing BAI data: {e}")

---------------------------------------------------------------------------
(* GET /analyze/asq *)

\* [opt.strip() for opt in selected_options_raw.split(",")]
asq_selected_options(selected_options_raw) ==
    LET parts == split(selected_options_raw, ",")
    IN  [i \in 1..Len(parts) |-> strip(parts[i])]

\* <<none_option, yes_acuity, how_and_when_len, please_describe_len>>
asq_features(selected_options, acuity_response, how_and_when, please_describe) ==
    <<IF contains(selected_options, NoneOfTheAbove) THEN 1 ELSE 0,
      IF lower(acuity_response) = Yes THEN 1 ELSE 0,
      Len(how_and_when),
      Len(please_describe)>>

asq_row_outcome(row, input_name) ==
    IF Len(row) < 7 THEN Raise(Raised("IndexError"))
    ELSE LET selected_options_raw == strip(row[3])
             how_and_when == strip(row[4])
             acuity_response == strip(row[6])
             please_describe == strip(row[7])
             selected_options == asq_selected_options(selected_options_raw)
             features == asq_features(selected_options, acuity_response,
                                      how_and_when, please_describe)
             prediction == predict(asq_rf, asq_y, features)
         IN  Return([client_name |-> title(input_name),
                     selected_options |-> selected_options,
                     how_and_when |-> IF how_and_when = <<>> THEN NA ELSE how_and_when,
                     please_describe |-> IF please_describe = <<>> THEN NA ELSE please_describe,
                     acuity_response |-> IF acuity_response = <<>> THEN NA ELSE acuity_response,
                     interpretation |-> prediction,
                     primary_impression |->
                         IF prediction = "No Risk"
                         THEN "The client has no risk of suicidal thoughts or behaviors."
                         ELSE IF prediction = "Acute Positive Screen"
                         THEN "The client is at imminent risk of suicide and requires immediate safety and mental health evaluation."
                         ELSE "The client is at potential risk of suicide and requires a brief suicide safety assessment.",
                     additional_impressions |->
                         IF prediction = "No Risk" THEN <<>>
                         ELSE IF prediction = "Acute Positive Screen"
                         THEN <<"The client requires a STAT safety/full mental health evaluation.">>
                         ELSE <<"The client requires a brief suicide safety assessment.">>,
                     suggested_tools |->
                         IF prediction = "No Risk" THEN <<>>
                         ELSE IF prediction = "Acute Positive Screen"
                         THEN <<"Tools for Suicide", "Immediate Mental Health Safety Plan">>
                         ELSE <<"Tools for Suicide", "Suicide Risk Assessment Tools">>])

RECURSIVE asq_scan(_, _, _)
asq_scan(rows, i, input_name) ==
    IF i > Len(rows)
    THEN Raise(HTTPException(404, "Client '{input_name}' not found in ASQ data.", input_name))
    ELSE IF Len(rows[i]) < 4 THEN Raise(Raised("IndexError"))
    ELSE IF lower(row_name(rows[i])) = lower(input_name)
         THEN asq_row_outcome(rows[i], input_name)
         ELSE asq_scan(rows, i + 1, input_name)

asq_try(input_name, fetch) ==
    IF ~fetch.ok THEN Raise(Raised("RequestException"))
    ELSE IF fetch.rows = <<>> THEN Raise(Raised("StopIteration"))
    ELSE asq_scan(fetch.rows, 2, input_name)

asq_response(first_name, last_name, middle_name, suffix, fetch) ==
    try_except(asq_try(input_name_of(first_name, last_name, middle_name, suffix), fetch),
               "Error processing ASQ data: {e}")

---------------------------------------------------------------------------
(* Bounded inputs: query parameters, sheet rows, training samples *)

MaxDataRows == 2

FirstNames == {<<"a","L">>}

MiddleNames == {<<>>, <<"Q">>}

LastNames == {<<"L","i">>}

Suffixes == {<<>>, <<" ">>}

Stamp == <<"1","1","/","3">>

Unknown == <<"U","n","k","n","o","w","n">>

NearlyEveryDayLowered == <<"n","e","a","r","l","y"," ","e","v","e","r","y"," ","d","a","y">>

SeverelyLowered == <<"s","e","v","e","r","e","l","y"," ","-"," ","i","t"," ","b","o","t","h","e","r","e","d"," ","m","e"," ","a"," ","l","o","t">>

Header == <<<<"T","i","m","e">>, <<"Q">>, <<"F","i","r","s","t">>, <<"M","i","d">>, <<"L","a","s","t">>, <<"S","u","f">>>>

\* the client "Al Li" as the sheet spells it, the same client in another
\* spelling, the client "Al Q Li", and a client whose name extends "Al Li"
NameAlLi == <<<<"A","l">>, <<>>, <<"L","i">>, <<>>>>

NameAlLiVariant == <<<<"A","L">>, <<>>, <<"l","i">>, <<" ">>>>

NameAlQLi == <<<<"A","l">>, <<"Q">>, <<"L","i">>, <<>>>>

NameAlLim == <<<<"A","l">>, <<>>, <<"L","i","m">>, <<>>>>

\* a blank line, and a line cut off after three cells
BlankRow == <<>>

CutOffRow == <<Stamp, <<"A","l">>, <<"L","i">>>>

\* nine PHQ-9 answers scoring 27, and nine scoring 4 of which four are not table keys
Phq9AllNearly == [i \in 1..9 |-> NearlyEveryDay]

Phq9Mixed ==
    <<NotAtAll, <<" ">> \o SeveralDays \o <<" ">>, MoreThanHalf, Unknown,
      NearlyEveryDayLowered, SeveralDays, <<>>, <<"3">>, NotAtAll>>

Phq9Rows ==
    {<<Stamp>> \o Phq9AllNearly \o NameAlLi,
     <<Stamp>> \o Phq9Mixed \o NameAlLiVariant,
     <<Stamp>> \o SubSeq(Phq9Mixed, 1, 8) \o NameAlQLi,
     <<Stamp>> \o Phq9Mixed \o NameAlLim,
     BlankRow}

\* twenty-one BAI answers scoring 63, and twenty-one scoring 22
BaiAllSeverely == [i \in 1..21 |-> Severely]

BaiMixed ==
    [i \in 1..21 |->
        IF i <= 7 THEN Severely
        ELSE IF i = 8 THEN <<"\t">> \o Mildly
        ELSE IF i = 9 THEN Unknown
        ELSE IF i = 10 THEN SeverelyLowered
        ELSE NotAtAll]

BaiRows ==
    {<<Stamp>> \o BaiAllSeverely \o NameAlLi,
     <<Stamp>> \o BaiMixed \o NameAlLiVariant,
     <<Stamp>> \o SubSeq(BaiMixed, 1, 20) \o NameAlQLi,
     <<Stamp>> \o BaiMixed \o NameAlLim,
     CutOffRow}

\* ASQ rows: timestamp, consent, selected options, how and when, follow-up,
\* acuity, description, then the four name cells
AsqNoneAndYes ==
    <<Stamp, <<"Y">>, <<"X">> \o <<",", " ">> \o NoneOfTheAbove \o <<" ">>, <<>>, <<>>,
      <<"Y","e","s">>, <<>>>>

AsqOptionAndYes ==
    <<Stamp, <<"Y">>, <<"X">>, <<"n","o","w">>, <<>>, <<" ","Y","E","S">>, <<>>>>

AsqRows ==
    {AsqNoneAndYes \o NameAlLi,
     AsqOptionAndYes \o NameAlLiVariant,
     <<Stamp>> \o NameAlQLi,
     AsqOptionAndYes \o NameAlLim,
     BlankRow}

\* what requests.get(...).text.splitlines() through csv.reader yields: a failed
\* fetch, an empty body, or a header followed by at most MaxDataRows distinct data rows
Fetches(Rows) ==
    {[ok |-> FALSE, rows |-> <<>>], [ok |-> TRUE, rows |-> <<>>]}
    \cup {[ok |-> TRUE, rows |-> <<Header>> \o data] :
            data \in UNION {{d \in [1..n -> Rows] : \A i, j \in 1..n : d[i] = d[j] => i = j} :
                               n \in 0..MaxDataRows}}

\* training samples np.random.randint(0, 4, ...) and random.choice/randint can draw;
\* a training set is a non-empty set of them (num_samples bounded by the pool)
Phq9SamplePool == {<<0,0,1,0,1,0,1,0,0>>, <<3,3,3,3,3,3,3,3,3>>}

BaiSamplePool == {[i \in 1..21 |-> 1], [i \in 1..21 |-> 3]}

AsqSamplePool == {<<1,0,10,20>>, <<0,1,5,5>>}

\* the feature vectors of the well-formed rows above
Phq9Queries == {<<3,3,3,3,3,3,3,3,3>>, <<0,1,2,0,0,1,0,0,0>>}

BaiQueries == {[i \in 1..21 |-> 3], [i \in 1..21 |-> IF i <= 7 THEN 3 ELSE IF i = 8 THEN 1 ELSE 0]}

AsqQueries == {<<1,1,0,0>>, <<0,1,3,0>>}

---------------------------------------------------------------------------
(* The process *)

Phq9Fetches == Fetches(Phq9Rows)

BaiFetches == Fetches(BaiRows)

AsqFetches == Fetches(AsqRows)

NoRequest == [first_name |-> <<>>, last_name |-> <<>>, middle_name |-> <<>>, suffix |-> <<>>]

NoFetch == [ok |-> FALSE, rows |-> <<>>]

NoResponse == [status_code |-> 0, detail |-> NoDetail, cause |-> NoCause, content |-> NoContent]

\* module import: the tables are built, the training data drawn, the classifiers fitted
Init ==
    /\ phq9_response_mapping = Phq9MappingAtStart
    /\ bai_response_mapping = BaiMappingAtStart
    /\ phq9_X \in (SUBSET Phq9SamplePool) \ {{}}
    /\ phq9_y = generate_phq9_training_data(phq9_X)
    /\ phq9_rf \in fit(phq9_y, Phq9Queries)
    /\ bai_X \in (SUBSET BaiSamplePool) \ {{}}
    /\ bai_y = generate_bai_training_data(bai_X)
    /\ bai_rf \in fit(bai_y, BaiQueries)
    /\ asq_X \in (SUBSET AsqSamplePool) \ {{}}
    /\ asq_y = generate_asq_training_data(asq_X)
    /\ asq_rf \in fit(asq_y, AsqQueries)
    /\ handler = "idle"
    /\ request = NoRequest
    /\ fetched = NoFetch
    /\ response = NoResponse

root ==
    /\ handler = "idle"
    /\ handler' = "root"
    /\ response' = Ok([message |-> "Combined Mental Health Tool API is running."])
    /\ UNCHANGED <<request, fetched>>
    /\ UNCHANGED globals

health_check ==
    /\ handler = "idle"
    /\ handler' = "health_check"
    /\ response' = Ok([status |-> "ok", message |-> "API is running and accessible."])
    /\ UNCHANGED <<request, fetched>>
    /\ UNCHANGED globals

\* a variant of the handler that looks answers up with setdefault, which
\* stores every answer text it has not seen in the table
analyze_phq9_setdefault(first_name, last_name, middle_name, suffix, fetch) ==
    LET input_name == input_name_of(first_name, last_name, middle_name, suffix)
        hits == {i \in 2..Len(fetch.rows) :
                    /\ Len(fetch.rows[i]) >= 4
                    /\ lower(row_name(fetch.rows[i])) = lower(input_name)
                    /\ Len(answer_slice(fetch.rows[i])) = Phq9Answers}
        seen == IF fetch.ok /\ hits # {}
                THEN {strip(answer_slice(fetch.rows[SetMin(hits)])[k]) : k \in 1..Phq9Answers}
                ELSE {}
    IN  /\ handler = "idle"
        /\ handler' = "analyze_phq9"
        /\ request' = [first_name |-> first_name, last_name |-> last_name,
                       middle_name |-> middle_name, suffix |-> suffix]
        /\ fetched' = fetch
        /\ response' = phq9_response(first_name, last_name, middle_name, suffix, fetch)
        /\ phq9_response_mapping' =
             [k \in DOMAIN phq9_response_mapping \cup seen |-> get(phq9_response_mapping, k, 0)]
        /\ UNCHANGED <<bai_response_mapping, phq9_X, phq9_y, phq9_rf,
                       bai_X, bai_y, bai_rf, asq_X, asq_y, asq_rf>>

analyze_phq9(first_name, last_name, middle_name, suffix, fetch) ==
    /\ handler = "idle"
    /\ handler' = "analyze_phq9"
    /\ request' = [first_name |-> first_name, last_name |-> last_name,
                   middle_name |-> middle_name, suffix |-> suffix]
    /\ fetched' = fetch
    /\ response' = phq9_response(first_name, last_name, middle_name, suffix, fetch)
    /\ UNCHANGED globals

analyze_bai(first_name, last_name, middle_name, suffix, fetch) ==
    /\ handler = "idle"
    /\ handler' = "analyze_bai"
    /\ request' = [first_name |-> first_name, last_name |-> last_name,
                   middle_name |-> middle_name, suffix |-> suffix]
    /\ fetched' = fetch
    /\ response' = bai_response(first_name, last_name, middle_name, suffix, fetch)
    /\ UNCHANGED globals

analyze_asq(first_name, last_name, middle_name, suffix, fetch) ==
    /\ handler = "idle"
    /\ handler' = "analyze_asq"
    /\ request' = [first_name |-> first_name, last_name |-> last_name,
                   middle_name |-> middle_name, suffix |-> suffix]
    /\ fetched' = fetch
    /\ response' = asq_response(first_name, last_name, middle_name, suffix, fetch)
    /\ UNCHANGED globals

\* the response is sent; the handler's locals are gone, the module globals stay
deliver ==
    /\ handler # "idle"
    /\ handler' = "idle"
    /\ request' = NoRequest
    /\ fetched' = NoFetch
    /\ response' = NoResponse
    /\ UNCHANGED globals

Next ==
    \/ root
    \/ health_check
    \/ \E first_name \in FirstNames, last_name \in LastNames,
          middle_name \in MiddleNames, suffix \in Suffixes, fetch \in Phq9Fetches :
            analyze_phq9(first_name, last_name, middle_name, suffix, fetch)
    \/ \E first_name \in FirstNames, last_name \in LastNames,
          middle_name \in MiddleNames, suffix \in Suffixes, fetch \in BaiFetches :
            analyze_bai(first_name, last_name, middle_name, suffix, fetch)
    \/ \E first_name \in FirstNames, last_name \in LastNames,
          middle_name \in MiddleNames, suffix \in Suffixes, fetch \in AsqFetches :
            analyze_asq(first_name, last_name, middle_name, suffix, fetch)
    \/ deliver

Spec == Init /\ [][Next]_vars

TypeOK ==
    /\ handler \in {"idle", "root", "health_check", "analyze_phq9", "analyze_bai", "analyze_asq"}
    /\ response.status_code \in {0, 200, 400, 404, 500}
    /\ \A q \in Phq9Queries : phq9_rf[q] \in Phq9Labels
    /\ \A q \in BaiQueries : bai_rf[q] \in BaiLabels
    /\ \A q \in AsqQueries : asq_rf[q] \in AsqLabels

---------------------------------------------------------------------------
(* Vocabulary of the properties *)

Analyzing == handler \in {"analyze_phq9", "analyze_bai", "analyze_asq"}

SheetFetched == fetched.ok /\ fetched.rows # <<>>

\* the response an endpoint gives a request on a given fetch result
ResponseTo(endpoint, req, fetch) ==
    CASE endpoint = "analyze_phq9" ->
            phq9_response(req.first_name, req.last_name, req.middle_name, req.suffix, fetch)
      [] endpoint = "analyze_bai" ->
            bai_response(req.first_name, req.last_name, req.middle_name, req.suffix, fetch)
      [] endpoint = "analyze_asq" ->
            asq_response(req.first_name, req.last_name, req.middle_name, req.suffix, fetch)

\* four name parts joined with single spaces, trimmed and lower-cased
NameKey(a, b, c, d) == lower(strip(join_name(a, b, c, d)))

RowKey(row) == NameKey(row[Len(row) - 3], row[Len(row) - 2], row[Len(row) - 1], row[Len(row)])

RequestKey == NameKey(request.first_name, request.middle_name, request.last_name, request.suffix)

\* positions in the sheet (the header is position 1) of the data rows that carry the requested name
MatchingRows ==
    {i \in 2..Len(fetched.rows) : Len(fetched.rows[i]) >= 4 /\ RowKey(fetched.rows[i]) = RequestKey}

FirstMatch == SetMin(MatchingRows)

\* every data row ahead of position i has its four name cells
NoShortRowBefore(i) == \A j \in 2..(i - 1) : Len(fetched.rows[j]) >= 4

ExpectedAnswers == IF handler = "analyze_phq9" THEN Phq9Answers ELSE BaiAnswers

---------------------------------------------------------------------------
(* Properties *)

\* C1: when the sheet is fetched and no data row carries the requested name,
\* the request ends with status 404 and a detail naming the requested client.
C1_NotFoundIs404 ==
    (/\ Analyzing
     /\ SheetFetched
     /\ NoShortRowBefore(Len(fetched.rows) + 1)
     /\ MatchingRows = {})
    => (/\ response.status_code = 404
        /\ response.detail.client =
             input_name_of(request.first_name, request.last_name,
                           request.middle_name, request.suffix))

\* C2: for PHQ-9 and BAI, when the matched row's answer slice does not hold
\* exactly the expected number of answers, the request ends with status 400.
C2_WrongAnswerCountIs400 ==
    (/\ handler \in {"analyze_phq9", "analyze_bai"}
     /\ SheetFetched
     /\ MatchingRows # {}
     /\ NoShortRowBefore(FirstMatch)
     /\ Len(answer_slice(fetched.rows[FirstMatch])) # ExpectedAnswers)
    => response.status_code = 400

\* the PHQ-9 tiers as documented: label, lowest and highest score
Phq9Tiers ==
    {[label |-> "Minimal or none (0-4)", lo |-> 0, hi |-> 4],
     [label |-> "Mild (5-9)", lo |-> 5, hi |-> 9],
     [label |-> "Moderate (10-14)", lo |-> 10, hi |-> 14],
     [label |-> "Moderately severe (15-19)", lo |-> 15, hi |-> 19],
     [label |-> "Severe (20-27)", lo |-> 20, hi |-> 27]}

\* the BAI tiers as documented
BaiTiers ==
    {[label |-> "Low Anxiety (0-21)", lo |-> 0, hi |-> 21],
     [label |-> "Moderate Anxiety (22-35)", lo |-> 22, hi |-> 35],
     [label |-> "Severe Anxiety (36+)", lo |-> 36, hi |-> 63]}

TierLabel(tiers, score) == (CHOOSE t \in tiers : t.lo <= score /\ score <= t.hi).label

\* C3: every successful /analyze/phq9 response carries the label of the
\* tier whose range contains its total_score.
C3_Phq9LabelMatchesScore ==
    (handler = "analyze_phq9" /\ response.status_code = 200)
    => response.content.interpretation = TierLabel(Phq9Tiers, response.content.total_score)

\* C4: every successful /analyze/bai response carries the label of the tier
\* whose range contains its total_score.
C4_BaiLabelMatchesScore ==
    (handler = "analyze_bai" /\ response.status_code = 200)
    => response.content.interpretation = TierLabel(BaiTiers, response.content.total_score)

\* C5: every successful /analyze/asq response is 'No Risk' when 'None of the
\* above' is among the selected options, else 'Acute Positive Screen' when
\* the acuity response is 'yes' in any letter case, else 'Non-Acute Positive Screen'.
C5_AsqRule ==
    (handler = "analyze_asq" /\ response.status_code = 200)
    => response.content.interpretation =
         IF contains(response.content.selected_options, NoneOfTheAbove) THEN "No Risk"
         ELSE IF lower(response.content.acuity_response) = Yes THEN "Acute Positive Screen"
         ELSE "Non-Acute Positive Screen"

\* the response the endpoint gives when the sheet holds the header and row i only
ResponseFromRowAlone(i) ==
    ResponseTo(handler, request, [ok |-> TRUE, rows |-> <<fetched.rows[1], fetched.rows[i]>>])

\* C6: the response is the one computed from the first data row, in source
\* order, whose name key equals the request's; a later matching row or a row
\* that matches only in part never decides it, and without a matching row
\* the scan ends in the not-found exception.
C6_FirstMatchDecides ==
    (Analyzing /\ SheetFetched)
    => LET matching == MatchingRows
       IN  /\ (matching # {} /\ NoShortRowBefore(SetMin(matching)))
                => response = ResponseFromRowAlone(SetMin(matching))
           /\ (matching = {} /\ NoShortRowBefore(Len(fetched.rows) + 1))
                => response.cause.status_code = 404

\* two rows carry the requested name, and the first, scoring 4, produced the response
C6_Witness ==
    /\ handler = "analyze_phq9"
    /\ SheetFetched
    /\ Cardinality(MatchingRows) = 2
    /\ response.status_code = 200
    /\ response.content.total_score = 4

\* the text without its leading and trailing whitespace characters
WithoutOuterWhitespace(s) ==
    IF \A k \in 1..Len(s) : s[k] \in Whitespace THEN <<>>
    ELSE LET first == CHOOSE i \in 1..Len(s) :
                         s[i] \notin Whitespace /\ \A k \in 1..(i - 1) : s[k] \in Whitespace
             last == CHOOSE j \in 1..Len(s) :
                         s[j] \notin Whitespace /\ \A k \in (j + 1)..Len(s) : s[k] \in Whitespace
         IN  [k \in 1..(last - first + 1) |-> s[first + k - 1]]

\* the same letter in either case, or the same character
SameLetter(c, d) ==
    c = d \/ \E k \in 1..Len(UpperCase) : {c, d} = {UpperCase[k], LowerCase[k]}

\* two texts that differ at most in letter case and in leading or trailing whitespace
SameButCaseAndOuterSpace(s, t) ==
    LET a == WithoutOuterWhitespace(s)
        b == WithoutOuterWhitespace(t)
    IN  Len(a) = Len(b) /\ \A k \in 1..Len(a) : SameLetter(a[k], b[k])

RowJoined(row) == join_name(row[Len(row) - 3], row[Len(row) - 2], row[Len(row) - 1], row[Len(row)])

RequestJoined ==
    join_name(request.first_name, request.middle_name, request.last_name, request.suffix)

\* C8: a request whose joined name differs from a row's joined name only in
\* letter case or in leading/trailing whitespace matches that row: when it
\* is the first such row the scan reaches, the response is computed from it.
C8_CaseAndTrimInsensitive ==
    (Analyzing /\ SheetFetched)
    => \A i \in 2..Len(fetched.rows) :
         (/\ NoShortRowBefore(i + 1)
          /\ SameButCaseAndOuterSpace(RowJoined(fetched.rows[i]), RequestJoined)
          /\ \A j \in 2..(i - 1) :
                ~SameButCaseAndOuterSpace(RowJoined(fetched.rows[j]), RequestJoined))
         => /\ response.cause.status_code # 404
            /\ response = ResponseFromRowAlone(i)

\* a BAI request answered from a row whose joined name is spelled differently
C8_Witness ==
    /\ handler = "analyze_bai"
    /\ response.status_code = 200
    /\ request.suffix = <<" ">>
    /\ MatchingRows # {}
    /\ RowJoined(fetched.rows[FirstMatch]) # RequestJoined
    /\ strip(RowJoined(fetched.rows[FirstMatch])) # strip(RequestJoined)

\* the score the documented table gives one answer cell
CellScore(table, cell) ==
    LET text == WithoutOuterWhitespace(cell)
    IN  IF \E key \in DOMAIN table : key = text THEN table[text] ELSE 0

TableAtStart == IF handler = "analyze_phq9" THEN Phq9MappingAtStart ELSE BaiMappingAtStart

\* C7: total_score is the sum over the matched row's answer cells of the
\* table applied to the trimmed cell, anything that is not a table key
\* counting 0; it lies in 0..27 for PHQ-9 and in 0..63 for BAI.
C7_ScoreIsTableSum ==
    (handler \in {"analyze_phq9", "analyze_bai"} /\ response.status_code = 200)
    => LET cells == answer_slice(fetched.rows[FirstMatch])
       IN  /\ response.content.total_score =
                sum([k \in 1..Len(cells) |-> CellScore(TableAtStart, cells[k])])
           /\ response.content.total_score \in 0..(3 * ExpectedAnswers)

\* a PHQ-9 score of 4 from a row holding a text that is no table key, a key
\* in another letter case and a key with spaces around it
C7_Witness ==
    /\ handler = "analyze_phq9"
    /\ response.status_code = 200
    /\ response.content.total_score = 4
    /\ contains(answer_slice(fetched.rows[FirstMatch]), Unknown)
    /\ contains(answer_slice(fetched.rows[FirstMatch]), NearlyEveryDayLowered)
    /\ contains(answer_slice(fetched.rows[FirstMatch]), <<" ">> \o SeveralDays \o <<" ">>)

\* C9: no step of any request changes the answer-to-score tables or the
\* classifiers and training data built at process start.
C9_NoRequestWritesState ==
    [][/\ globals' = globals
       /\ phq9_response_mapping' = Phq9MappingAtStart
       /\ bai_response_mapping' = BaiMappingAtStart]_vars

\* a request that looked up answer texts missing from the table has been served
C9_Witness ==
    /\ handler = "analyze_phq9"
    /\ response.status_code = 200
    /\ \E k \in 1..Phq9Answers :
          strip(answer_slice(fetched.rows[FirstMatch])[k]) \notin DOMAIN Phq9MappingAtStart
    /\ phq9_response_mapping = Phq9MappingAtStart

\* the fetch result without the short rows that follow position m
WithoutShortRowsAfter(m) ==
    LET keep == {i \in 1..Len(fetched.rows) : i <= m \/ Len(fetched.rows[i]) >= 4}
        nth(k) == CHOOSE i \in keep : Cardinality({j \in keep : j < i}) = k - 1
    IN  [ok |-> TRUE, rows |-> [k \in 1..Cardinality(keep) |-> fetched.rows[nth(k)]]]

\* C10: a data row with fewer than four cells ahead of the first matching
\* row makes the request end with status 500 although a matching row exists;
\* short rows behind the first matching row leave the response as it is
\* without them.
C10_ShortRowPosition ==
    (Analyzing /\ SheetFetched)
    => LET matching == MatchingRows
       IN  matching # {}
           => /\ ~NoShortRowBefore(SetMin(matching))
                    => /\ response.status_code = 500
                       /\ response.cause.type = "IndexError"
              /\ NoShortRowBefore(SetMin(matching))
                    => response = ResponseTo(handler, request,
                                             WithoutShortRowsAfter(SetMin(matching)))

\* a blank row ahead of the client's row turned the request into a 500
C10_Witness ==
    /\ handler = "analyze_asq"
    /\ SheetFetched
    /\ MatchingRows # {}
    /\ FirstMatch = 3
    /\ fetched.rows[2] = BlankRow
    /\ response.status_code = 500

====
